---- MODULE Spec2Model ----
(***************************************************************************)
(* Model of client/src/main.rs of raydium-clmm: load_cfg (address          *)
(* derivation of the config, pool and bitmap-extension accounts) and the   *)
(* two tick-array routers load_cur_and_next_five_tick_array and            *)
(* load_cur_and_next_five_tick_array_keys.                                 *)
(*                                                                         *)
(* Pubkeys are byte strings compared lexicographically.  A program derived *)
(* address is modelled symbolically as the pair (program, seeds): the      *)
(* derivation is a collision-avoiding hash, so two derivations agree       *)
(* exactly when program and seeds agree.                                   *)
(***************************************************************************)
EXTENDS Integers, Sequences, FiniteSets, TLC

VARIABLES
    ini,                                  \* the configuration file read by load_cfg
    client_config,                        \* ClientConfig returned by load_cfg
    pc,                                   \* position of the router call
    fn,                                   \* which of the two routers is running
    pool_state,                           \* argument: decoded PoolState
    tickarray_bitmap_extension,           \* argument: decoded TickArrayBitmapExtension
    zero_for_one,                         \* argument: trade direction
    current_valid_tick_array_start_index, \* local of the router
    tick_array_keys,                      \* local of the router (Vec<Pubkey>)
    max_array_size,                       \* local of the router (loop counter)
    tick_array_rsps,                      \* local: answer of get_multiple_accounts
    tick_arrays,                          \* local: VecDeque<TickArrayState>
    rpc_requests,                         \* RPC collaborator: the reads it received in this call
    route,                                \* history: start indices found by the bitmap walk
    outcome                               \* what the caller observes

vars == <<ini, client_config, pc, fn, pool_state, tickarray_bitmap_extension,
          zero_for_one, current_valid_tick_array_start_index, tick_array_keys,
          max_array_size, tick_array_rsps, tick_arrays, rpc_requests, route,
          outcome>>

routerVars == <<pc, fn, pool_state, tickarray_bitmap_extension, zero_for_one,
                current_valid_tick_array_start_index, tick_array_keys,
                max_array_size, tick_array_rsps, tick_arrays, rpc_requests,
                route, outcome>>

-----------------------------------------------------------------------------
(* Bounds of the model *)

\* bytes of a modelled Pubkey (32 in the program)
KeyLen == 2
\* largest byte value of a modelled Pubkey
MaxByte == 1
\* number of tick arrays of the modelled tick range
NumArrays == 7
\* tick arrays the inline bitmap covers on each side of tick 0
InlineHalf == 2
\* accounts one multi-account read may report absent
MaxAbsent == 1
\* largest look-ahead a caller may wish to configure
MaxLookahead == 7

-----------------------------------------------------------------------------
(* Option, Pubkey, seeds *)

None == [none |-> TRUE]

Pubkey(b) == [bytes |-> b]

Pubkeys == {Pubkey(b) : b \in [1..KeyLen -> 0..MaxByte]}

FirstKey == Pubkey([i \in 1..KeyLen |-> 0])

LastKey == Pubkey([i \in 1..KeyLen |-> MaxByte])

\* Ord of Pubkey: lexicographic order of the bytes
PubkeyGt(a, b) ==
    \E i \in 1..KeyLen :
        /\ a.bytes[i] > b.bytes[i]
        /\ \A j \in 1..(i - 1) : a.bytes[j] = b.bytes[j]

AMM_CONFIG_SEED == "amm_config"

POOL_SEED == "pool"

POOL_TICK_ARRAY_BITMAP_SEED == "pool_tick_array_bitmap_extension"

TICK_ARRAY_SEED == "tick_array"

\* u16::to_be_bytes
U16ToBeBytes(n) == <<n \div 256, n % 256>>

\* i32::to_be_bytes: two's complement, most significant byte first
\* (byte k is the arithmetic right shift of n by 8 * (4 - k) bits, masked to 8 bits)
I32ToBeBytes(n) ==
    <<(n \div 16777216) % 256, (n \div 65536) % 256, (n \div 256) % 256, n % 256>>

\* i32::from_be_bytes, the inverse the ledger applies to the seed of an address
I32FromBeBytes(b) ==
    LET hi == IF b[1] >= 128 THEN b[1] - 256 ELSE b[1]
    IN  ((hi * 256 + b[2]) * 256 + b[3]) * 256 + b[4]

\* Pubkey::find_program_address(seeds, program).0
find_program_address(seeds, program) == [program |-> program, seeds |-> seeds]

-----------------------------------------------------------------------------
(* load_cfg *)

\* load_cfg without the swap
OrderMints_NoSwap(mint0, mint1) == <<mint0, mint1>>

\* load_cfg with the comparison of the swap inverted
OrderMints_SwapWhenLess(mint0, mint1) ==
    IF PubkeyGt(mint1, mint0) THEN <<mint1, mint0>> ELSE <<mint0, mint1>>

\* the in-place swap of load_cfg: mint0 and mint1 after canonicalisation
OrderMints(mint0, mint1) ==
    IF PubkeyGt(mint0, mint1) THEN <<mint1, mint0>> ELSE <<mint0, mint1>>

load_cfg(f) ==
    LET raydium_v3_program == f.raydium_v3_program
        amm_config_index == f.amm_config_index % 65536
        amm_config_key ==
            find_program_address(
                <<AMM_CONFIG_SEED, U16ToBeBytes(amm_config_index)>>,
                raydium_v3_program)
        both == f.mint0 # None /\ f.mint1 # None
        mints == IF both THEN OrderMints(f.mint0, f.mint1) ELSE <<f.mint0, f.mint1>>
        pool_id_account ==
            IF both
            THEN find_program_address(
                     <<POOL_SEED, amm_config_key, mints[1], mints[2]>>,
                     raydium_v3_program)
            ELSE None
        bitmap_extension ==
            IF pool_id_account # None
            THEN find_program_address(
                     <<POOL_TICK_ARRAY_BITMAP_SEED, pool_id_account>>,
                     raydium_v3_program)
            ELSE None
    IN  [raydium_v3_program |-> raydium_v3_program,
         amm_config_key |-> amm_config_key,
         mint0 |-> mints[1],
         mint1 |-> mints[2],
         pool_id_account |-> pool_id_account,
         tickarray_bitmap_extension |-> bitmap_extension,
         amm_config_index |-> amm_config_index]

\* values of [Pool] amm_config_index the model reads (a u64 cast to u16)
ConfigIndices == {0, 1, 65537}

Programs == {FirstKey, LastKey}

IniFiles ==
    [raydium_v3_program : Programs,
     mint0 : Pubkeys \cup {None},
     mint1 : Pubkeys \cup {None},
     amm_config_index : ConfigIndices]

NoIni == [none |-> TRUE]

NoConfig == [none |-> TRUE]

-----------------------------------------------------------------------------
(* Tick arrays and the two bitmaps of a pool *)

\* ticks of one tick array (the protocol's array size)
TICK_ARRAY_SIZE == 60

\* tick spacings of the modelled pools
TickSpacings == {10}

\* offsets of the current tick inside its tick array
TickOffsets == {0, 34}

TickCount(tick_spacing) == TICK_ARRAY_SIZE * tick_spacing

ArrayIndices == (-(NumArrays \div 2)) .. ((NumArrays - 1) \div 2)

StartIndices(tick_spacing) == {i * TickCount(tick_spacing) : i \in ArrayIndices}

\* whether the pool's inline bitmap has a bit for start index s
InInlineBitmap(s, tick_spacing) ==
    /\ s >= -(InlineHalf * TickCount(tick_spacing))
    /\ s < InlineHalf * TickCount(tick_spacing)

InlineStarts(tick_spacing) ==
    {s \in StartIndices(tick_spacing) : InInlineBitmap(s, tick_spacing)}

\* the start indices only the bitmap extension has a bit for
ExtensionStarts(tick_spacing) ==
    StartIndices(tick_spacing) \ InlineStarts(tick_spacing)

PoolStates ==
    UNION {[tick_current : {s + o : s \in StartIndices(sp), o \in TickOffsets},
            tick_spacing : {sp},
            tick_array_bitmap : SUBSET InlineStarts(sp)] : sp \in TickSpacings}

Extensions(tick_spacing) == SUBSET ExtensionStarts(tick_spacing)

Max(S) == CHOOSE x \in S : \A y \in S : y <= x

Min(S) == CHOOSE x \in S : \A y \in S : x <= y

Some(x) == [some |-> x]

\* TickArrayState::get_array_start_index: floor to a multiple of the array's tick count
get_array_start_index(tick, tick_spacing) ==
    (tick \div TickCount(tick_spacing)) * TickCount(tick_spacing)

\* the bit of start index s: in the inline bitmap when it covers s, else in the extension
IsInitialized(ps, ext, s) ==
    IF InInlineBitmap(s, ps.tick_spacing)
    THEN s \in ps.tick_array_bitmap
    ELSE s \in ext

InitializedStarts(ps, ext) == ps.tick_array_bitmap \cup ext

\* PoolState::next_initialized_tick_array_start_index: the nearest initialized
\* start index strictly further in the trade direction, None when there is none
next_initialized_tick_array_start_index(ps, ext, last, zfo) ==
    LET from == get_array_start_index(last, ps.tick_spacing)
        further == {s \in InitializedStarts(ps, ext) :
                       IF zfo THEN s < from ELSE s > from}
    IN  IF further = {} THEN None
        ELSE Some(IF zfo THEN Max(further) ELSE Min(further))

\* PoolState::get_first_initialized_tick_array: the array of the current tick when
\* it is initialized, else the next one in the trade direction, else an error
get_first_initialized_tick_array(ps, ext, zfo) ==
    LET cur == get_array_start_index(ps.tick_current, ps.tick_spacing)
        nxt == next_initialized_tick_array_start_index(ps, ext, cur, zfo)
    IN  IF IsInitialized(ps, ext, cur) THEN [ok |-> <<TRUE, cur>>]
        ELSE IF nxt = None THEN [err |-> "NoInitializedTickArrayError"]
        ELSE [ok |-> <<FALSE, nxt.some>>]

-----------------------------------------------------------------------------
(* The RPC collaborator and the account codec *)

\* the account the ledger holds at a tick-array address
AccountAt(key) ==
    [discriminator |-> "TickArrayState",
     start_tick_index |-> I32FromBeBytes(key.seeds[3])]

\* get_multiple_accounts: one Option<Account> per requested key, in request order
Responses(keys, absent) ==
    [i \in 1..Len(keys) |-> IF i \in absent THEN None ELSE Some(AccountAt(keys[i]))]

\* deserialize_anchor_account::<TickArrayState>
deserialize_anchor_account(account) ==
    IF account.discriminator = "TickArrayState"
    THEN [ok |-> [start_tick_index |-> account.start_tick_index]]
    ELSE [err |-> "UnknownDiscriminatorError"]

-----------------------------------------------------------------------------
(* The routers *)

\* a walk that looks one array further ahead
MaxArraySize_Six == 5 + 1

\* a walk that looks one array less far ahead
MaxArraySize_Four == 5 - 1

\* the look-ahead of the walk: let mut max_array_size = 5
MaxArraySize == 5

\* the address with the start index seeded least significant byte first
tick_array_key_LittleEndian(cfg, start_index) ==
    LET be == I32ToBeBytes(start_index)
    IN  find_program_address(
            <<TICK_ARRAY_SEED, cfg.pool_id_account, <<be[4], be[3], be[2], be[1]>>>>,
            cfg.raydium_v3_program)

\* the address pushed for a start index
tick_array_key(cfg, start_index) ==
    find_program_address(
        <<TICK_ARRAY_SEED, cfg.pool_id_account, I32ToBeBytes(start_index)>>,
        cfg.raydium_v3_program)

\* a decode loop that pushes at the front of the queue
DecodeAll_Reversed(rsps) ==
    [i \in 1..Len(rsps) |->
        deserialize_anchor_account(rsps[Len(rsps) + 1 - i].some).ok]

\* the decode loop: response i, unwrapped and decoded, is pushed at the back
DecodeAll(rsps) ==
    [i \in 1..Len(rsps) |-> deserialize_anchor_account(rsps[i].some).ok]

Routers == {"load_cur_and_next_five_tick_array",
            "load_cur_and_next_five_tick_array_keys"}

NoPool == [none |-> TRUE]

NoOutcome == [kind |-> "none"]

Idle ==
    /\ pc = "idle"
    /\ fn = "none"
    /\ pool_state = NoPool
    /\ tickarray_bitmap_extension = {}
    /\ zero_for_one = FALSE
    /\ current_valid_tick_array_start_index = 0
    /\ tick_array_keys = <<>>
    /\ max_array_size = 0
    /\ tick_array_rsps = <<>>
    /\ tick_arrays = <<>>
    /\ rpc_requests = <<>>
    /\ route = <<>>
    /\ outcome = NoOutcome

\* entry of a router, the first initialized array found: first push, counter set
EnterWalk(f, ps, ext, zfo) ==
    LET first == get_first_initialized_tick_array(ps, ext, zfo)
    IN  /\ pc = "idle"
        /\ client_config # NoConfig
        /\ "ok" \in DOMAIN first
        /\ client_config.pool_id_account # None
        /\ pc' = "walk"
        /\ fn' = f
        /\ pool_state' = ps
        /\ tickarray_bitmap_extension' = ext
        /\ zero_for_one' = zfo
        /\ current_valid_tick_array_start_index' = first.ok[2]
        /\ tick_array_keys' = <<tick_array_key(client_config, first.ok[2])>>
        /\ route' = <<first.ok[2]>>
        /\ max_array_size' = MaxArraySize
        /\ UNCHANGED <<ini, client_config, tick_array_rsps, tick_arrays,
                       rpc_requests, outcome>>

\* entry of a router, no initialized array in the direction: unwrap of the Err panics
EnterNoTickArray(f, ps, ext, zfo) ==
    LET first == get_first_initialized_tick_array(ps, ext, zfo)
    IN  /\ pc = "idle"
        /\ client_config # NoConfig
        /\ "err" \in DOMAIN first
        /\ pc' = "panicked"
        /\ fn' = f
        /\ pool_state' = ps
        /\ tickarray_bitmap_extension' = ext
        /\ zero_for_one' = zfo
        /\ outcome' = [kind |-> "panic",
                       msg |-> "called Result::unwrap() on an Err value",
                       err |-> first.err]
        /\ UNCHANGED <<ini, client_config, current_valid_tick_array_start_index,
                       tick_array_keys, route, max_array_size, tick_array_rsps,
                       tick_arrays, rpc_requests>>

\* entry of a router with a config that has no pool: pool_id_account.unwrap() panics
EnterNoPool(f, ps, ext, zfo) ==
    LET first == get_first_initialized_tick_array(ps, ext, zfo)
    IN  /\ pc = "idle"
        /\ client_config # NoConfig
        /\ "ok" \in DOMAIN first
        /\ client_config.pool_id_account = None
        /\ pc' = "panicked"
        /\ fn' = f
        /\ pool_state' = ps
        /\ tickarray_bitmap_extension' = ext
        /\ zero_for_one' = zfo
        /\ current_valid_tick_array_start_index' = first.ok[2]
        /\ outcome' = [kind |-> "panic",
                       msg |-> "called Option::unwrap() on a None value",
                       err |-> "none"]
        /\ UNCHANGED <<ini, client_config, tick_array_keys, route, max_array_size,
                       tick_array_rsps, tick_arrays, rpc_requests>>

NextIndex ==
    next_initialized_tick_array_start_index(
        pool_state, tickarray_bitmap_extension,
        current_valid_tick_array_start_index, zero_for_one)

\* an iteration that forgets to move current_valid_tick_array_start_index on
WalkStep_NoAdvance ==
    /\ pc = "walk"
    /\ max_array_size # 0
    /\ NextIndex # None
    /\ tick_array_keys' =
           Append(tick_array_keys,
                  tick_array_key(client_config, current_valid_tick_array_start_index))
    /\ route' = Append(route, current_valid_tick_array_start_index)
    /\ max_array_size' = max_array_size - 1
    /\ UNCHANGED <<ini, client_config, pc, fn, pool_state,
                   tickarray_bitmap_extension, zero_for_one,
                   current_valid_tick_array_start_index, tick_array_rsps,
                   tick_arrays, rpc_requests, outcome>>

\* one iteration of the while loop that finds a next array
WalkStep ==
    /\ pc = "walk"
    /\ max_array_size # 0
    /\ NextIndex # None
    /\ current_valid_tick_array_start_index' = NextIndex.some
    /\ tick_array_keys' =
           Append(tick_array_keys, tick_array_key(client_config, NextIndex.some))
    /\ route' = Append(route, NextIndex.some)
    /\ max_array_size' = max_array_size - 1
    /\ UNCHANGED <<ini, client_config, pc, fn, pool_state,
                   tickarray_bitmap_extension, zero_for_one, tick_array_rsps,
                   tick_arrays, rpc_requests, outcome>>

\* the while loop is left: the counter is 0, or the search returned None (break)
WalkOver == pc = "walk" /\ (max_array_size = 0 \/ NextIndex = None)

AbsentSets(keys) ==
    {a \in SUBSET (1..Len(keys)) : Cardinality(a) <= MaxAbsent}

\* the value the router hands back
Returned(f, keys, states) ==
    IF f = "load_cur_and_next_five_tick_array_keys" THEN keys ELSE states

\* the batched read answers every key: all are decoded and the router returns
ReadDecodeReturn ==
    /\ WalkOver
    /\ rpc_requests' = Append(rpc_requests, tick_array_keys)
    /\ tick_array_rsps' = Responses(tick_array_keys, {})
    /\ tick_arrays' = DecodeAll(tick_array_rsps')
    /\ pc' = "done"
    /\ outcome' = [kind |-> "returned",
                   value |-> Returned(fn, tick_array_keys, tick_arrays')]
    /\ UNCHANGED <<ini, client_config, fn, pool_state, tickarray_bitmap_extension,
                   zero_for_one, current_valid_tick_array_start_index,
                   tick_array_keys, route, max_array_size>>

\* the batched read reports some key absent: the unwrap of that response panics
ReadDecodePanic(absent) ==
    /\ WalkOver
    /\ absent # {}
    /\ rpc_requests' = Append(rpc_requests, tick_array_keys)
    /\ tick_array_rsps' = Responses(tick_array_keys, absent)
    /\ tick_arrays' = DecodeAll(SubSeq(tick_array_rsps', 1, Min(absent) - 1))
    /\ pc' = "panicked"
    /\ outcome' = [kind |-> "panic",
                   msg |-> "called Option::unwrap() on a None value",
                   err |-> "none"]
    /\ UNCHANGED <<ini, client_config, fn, pool_state, tickarray_bitmap_extension,
                   zero_for_one, current_valid_tick_array_start_index,
                   tick_array_keys, route, max_array_size>>

\* the batched read itself fails: get_multiple_accounts(..).unwrap() panics
ReadRpcError ==
    /\ WalkOver
    /\ rpc_requests' = Append(rpc_requests, tick_array_keys)
    /\ pc' = "panicked"
    /\ outcome' = [kind |-> "panic",
                   msg |-> "called Result::unwrap() on an Err value",
                   err |-> "ClientError"]
    /\ UNCHANGED <<ini, client_config, fn, pool_state, tickarray_bitmap_extension,
                   zero_for_one, current_valid_tick_array_start_index,
                   tick_array_keys, route, max_array_size, tick_array_rsps,
                   tick_arrays>>

-----------------------------------------------------------------------------
(* Specifications *)

\* the configuration files of the router runs: two pools under two programs,
\* and a file without mints
RouterInis ==
    {[raydium_v3_program |-> FirstKey, mint0 |-> LastKey, mint1 |-> FirstKey,
      amm_config_index |-> 0],
     [raydium_v3_program |-> LastKey, mint0 |-> FirstKey, mint1 |-> LastKey,
      amm_config_index |-> 1],
     [raydium_v3_program |-> FirstKey, mint0 |-> None, mint1 |-> FirstKey,
      amm_config_index |-> 0]}

Init ==
    /\ ini \in RouterInis
    /\ client_config = load_cfg(ini)
    /\ Idle

\* a router is called with a decoded pool, its bitmap extension and a direction
Call ==
    /\ pc = "idle"
    /\ \E f \in Routers, ps \in PoolStates, zfo \in BOOLEAN :
           \E ext \in Extensions(ps.tick_spacing) :
               \/ EnterWalk(f, ps, ext, zfo)
               \/ EnterNoTickArray(f, ps, ext, zfo)
               \/ EnterNoPool(f, ps, ext, zfo)

Next ==
    \/ Call
    \/ WalkStep
    \/ ReadDecodeReturn
    \/ \E absent \in AbsentSets(tick_array_keys) : ReadDecodePanic(absent)
    \/ ReadRpcError

Spec == Init /\ [][Next]_vars

\* load_cfg reads one configuration file of the bounded input set, once per run
LoadCfg(f) ==
    /\ pc = "idle"
    /\ client_config = NoConfig
    /\ ini' = f
    /\ client_config' = load_cfg(f)
    /\ UNCHANGED routerVars

InitCfg ==
    /\ ini = NoIni
    /\ client_config = NoConfig
    /\ Idle

NextCfg == \E f \in IniFiles : LoadCfg(f)

SpecCfg == InitCfg /\ [][NextCfg]_vars

-----------------------------------------------------------------------------
(* Properties *)

Called == pool_state # NoPool

Ended == pc \in {"done", "panicked"}

\* the start index seeded into a tick-array address
StartOf(key) == I32FromBeBytes(key.seeds[3])

\* start index of the tick array that holds the pool's current tick
CurrentStart == get_array_start_index(pool_state.tick_current, pool_state.tick_spacing)

\* the initialized start indices at the current tick's array or further in the
\* trade direction
InDirection ==
    {s \in InitializedStarts(pool_state, tickarray_bitmap_extension) :
        IF zero_for_one THEN s <= CurrentStart ELSE s >= CurrentStart}

RECURSIVE NearestFirst(_, _, _)
\* the first k members of S in the trade direction, nearest first
NearestFirst(S, zfo, k) ==
    IF k = 0 \/ S = {} THEN <<>>
    ELSE LET h == IF zfo THEN Max(S) ELSE Min(S)
         IN  <<h>> \o NearestFirst(S \ {h}, zfo, k - 1)

\* the configuration file with the two mints exchanged
Swapped(f) == [f EXCEPT !.mint0 = f.mint1, !.mint1 = f.mint0]

PoolDerived ==
    /\ client_config # NoConfig
    /\ ini.mint0 # None
    /\ ini.mint1 # None

\* C1: a router call never collects more than 6 tick-array addresses (the first
\* initialized array and at most 5 look-ahead arrays), and never returns more
\* than 6 elements, however many initialized arrays lie in the trade direction.
C1_AtMostSixAddresses ==
    /\ Len(tick_array_keys) <= 6
    /\ outcome.kind = "returned" => Len(outcome.value) <= 6

\* a call that returned 6 addresses although more than 6 arrays are initialized
\* in the trade direction
C1_Witness ==
    /\ pc = "done"
    /\ Len(tick_array_keys) = 6
    /\ Cardinality(InDirection) > 6

\* C2: the start indices behind the collected addresses are strictly decreasing
\* when zero_for_one and strictly increasing otherwise, so none appears twice.
C2_StartIndicesStrictlyMonotonic ==
    /\ \A i \in 1..(Len(tick_array_keys) - 1) :
           IF zero_for_one
           THEN StartOf(tick_array_keys[i + 1]) < StartOf(tick_array_keys[i])
           ELSE StartOf(tick_array_keys[i + 1]) > StartOf(tick_array_keys[i])
    /\ \A i, j \in 1..Len(tick_array_keys) :
           i # j => StartOf(tick_array_keys[i]) # StartOf(tick_array_keys[j])

\* a returned route of 6 addresses walking downwards across tick 0
C2_Witness ==
    /\ pc = "done"
    /\ zero_for_one
    /\ Len(tick_array_keys) = 6
    /\ StartOf(tick_array_keys[1]) > 0
    /\ StartOf(tick_array_keys[6]) < 0

\* C3: the address at position i of the route is the address derived under the
\* configured program from the seeds "tick_array", the configured pool address
\* and the big-endian i32 bytes of the i-th start index the bitmap walk found.
C3_AddressesDerivedFromPoolAndStartIndex ==
    /\ Len(tick_array_keys) = Len(route)
    /\ \A i \in 1..Len(tick_array_keys) :
           LET s == route[i]
           IN  tick_array_keys[i] =
                   [program |-> client_config.raydium_v3_program,
                    seeds |-> <<"tick_array",
                                client_config.pool_id_account,
                                <<(s \div 16777216) % 256, (s \div 65536) % 256,
                                  (s \div 256) % 256, s % 256>>>>]

\* a returned route that holds a negative and a positive start index
C3_Witness ==
    /\ pc = "done"
    /\ \E i, j \in 1..Len(route) : route[i] < 0 /\ route[j] > 255
    /\ client_config.raydium_v3_program = LastKey

\* C4: with both mints present, loading the file with the two mints exchanged
\* yields the same mint0, mint1, pool_id_account and tickarray_bitmap_extension.
C4_PoolResolutionSymmetric ==
    PoolDerived =>
        LET other == load_cfg(Swapped(ini))
        IN  /\ client_config.mint0 = other.mint0
            /\ client_config.mint1 = other.mint1
            /\ client_config.pool_id_account = other.pool_id_account
            /\ client_config.tickarray_bitmap_extension =
                   other.tickarray_bitmap_extension

\* a file whose mints load_cfg had to swap
C4_Witness ==
    /\ PoolDerived
    /\ PubkeyGt(ini.mint0, ini.mint1)
    /\ client_config.pool_id_account # None
    /\ client_config.mint0 = ini.mint1

\* C5: once the walk is over the route is exactly the first min(6, n) of the n
\* initialized start indices in the trade direction, nearest first and beginning
\* with the first initialized array for the current tick, none skipped; a walk
\* that runs out of arrays ends without an error (after the first push only the
\* read can fail) and the route is returned.  With
\* tick spacing 10, current tick 1234, arrays initialized at 600 and 1200 only
\* and zero_for_one false the route is [1200].
C5_RouteIsNearestInitializedPrefix ==
    /\ rpc_requests # <<>> =>
           /\ route = NearestFirst(InDirection, zero_for_one, 6)
           /\ Len(tick_array_keys) = Len(route)
           /\ \A i \in 1..Len(route) : StartOf(tick_array_keys[i]) = route[i]
    /\ pc = "done" =>
           /\ outcome.kind = "returned"
           /\ Len(outcome.value) = Len(NearestFirst(InDirection, zero_for_one, 6))
    /\ (pc = "panicked" /\ tick_array_keys # <<>>) => rpc_requests # <<>>
    /\ (/\ rpc_requests # <<>>
        /\ pool_state.tick_spacing = 10
        /\ pool_state.tick_current = 1234
        /\ InitializedStarts(pool_state, tickarray_bitmap_extension) = {600, 1200}
        /\ ~zero_for_one) => route = <<1200>>

\* the scenario: current tick 1234, arrays at 600 and 1200, upwards, returned
C5_Witness ==
    /\ pc = "done"
    /\ pool_state.tick_spacing = 10
    /\ pool_state.tick_current = 1234
    /\ InitializedStarts(pool_state, tickarray_bitmap_extension) = {600, 1200}
    /\ ~zero_for_one
    /\ route = <<1200>>
    /\ outcome.kind = "returned"

\* C6: when no tick array is initialized in the trade direction the call ends by
\* handing the caller the error value NoInitializedTickArrayError, having derived
\* no address and issued no RPC read.
C6_NoInitializedArrayIsReturnedAsError ==
    (Called /\ Ended /\ InDirection = {}) =>
        /\ outcome.kind = "error"
        /\ outcome.err = "NoInitializedTickArrayError"
        /\ tick_array_keys = <<>>
        /\ rpc_requests = <<>>

\* C7: when the batched read reports a collected address absent the call ends by
\* handing the caller the error value MissingAccountError, and no key list or
\* queue is returned.
C7_AbsentAccountIsReturnedAsMissingAccountError ==
    (\E i \in 1..Len(tick_array_rsps) : tick_array_rsps[i] = None) =>
        /\ outcome.kind = "error"
        /\ outcome.err = "MissingAccountError"

\* C8 as stated: whenever a pool address is derived, the stored mint0 is strictly
\* less than the stored mint1, also for a pair of equal mints.
C8_MintsStrictlyOrdered ==
    PoolDerived => PubkeyGt(client_config.mint1, client_config.mint0)

\* C8 as amended: whenever a pool address is derived, the stored pair is the input
\* pair with mint0 not greater than mint1, strictly less when the two input mints
\* differ, and the pool address is seeded with the stored mint0 and mint1 in that
\* order.
C8_MintsOrdered ==
    PoolDerived =>
        /\ ~PubkeyGt(client_config.mint0, client_config.mint1)
        /\ ini.mint0 # ini.mint1 => PubkeyGt(client_config.mint1, client_config.mint0)
        /\ {client_config.mint0, client_config.mint1} = {ini.mint0, ini.mint1}
        /\ client_config.pool_id_account.seeds[3] = client_config.mint0
        /\ client_config.pool_id_account.seeds[4] = client_config.mint1

\* a pool derived from two different mints given in descending order
C8_Witness ==
    /\ PoolDerived
    /\ PubkeyGt(ini.mint0, ini.mint1)
    /\ client_config.pool_id_account.seeds[3] = ini.mint1
    /\ client_config.pool_id_account.seeds[4] = ini.mint0

\* C9: whatever look-ahead N the caller configures, a returned route has at most
\* N + 1 addresses, and more than 6 when N > 5 and more than 6 arrays are
\* initialized in the trade direction.
C9_LookaheadIsConfigurable ==
    \A N \in 0..MaxLookahead :
        pc = "done" =>
            /\ Len(tick_array_keys) <= N + 1
            /\ (N > 5 /\ Cardinality(InDirection) > 6) => Len(tick_array_keys) > 6

\* C10 as stated: every router call, however it ends, has issued exactly one
\* multi-account read, for the complete collected address sequence.
C10_EveryCallReadsOnce ==
    (Called /\ Ended) =>
        /\ Len(rpc_requests) = 1
        /\ rpc_requests[1] = tick_array_keys

\* C10 as amended: a call issues no read before its walk is over and at most one
\* in all; a call that gets past the walk issues exactly one, for the complete
\* collected address sequence in route order; a call that returns has decoded
\* response i into element i of the queue, which so has the length and order of
\* the collected addresses.
C10_OneReadAfterTheWalk ==
    /\ Len(rpc_requests) <= 1
    /\ pc \in {"idle", "walk"} => rpc_requests = <<>>
    /\ pc = "done" => Len(rpc_requests) = 1
    /\ (pc = "panicked" /\ rpc_requests = <<>>) => tick_array_keys = <<>>
    /\ rpc_requests # <<>> =>
           /\ rpc_requests[1] = tick_array_keys
           /\ max_array_size = 0 \/ NextIndex = None
    /\ pc = "done" =>
           /\ Len(tick_array_rsps) = Len(tick_array_keys)
           /\ Len(tick_arrays) = Len(tick_array_keys)
           /\ \A i \in 1..Len(tick_array_keys) :
                  /\ tick_array_rsps[i] # None
                  /\ tick_arrays[i] =
                         deserialize_anchor_account(tick_array_rsps[i].some).ok
                  /\ tick_arrays[i].start_tick_index = StartOf(tick_array_keys[i])

\* a call of the queue-returning router that read and decoded 3 or more accounts
C10_Witness ==
    /\ pc = "done"
    /\ fn = "load_cur_and_next_five_tick_array"
    /\ Len(rpc_requests) = 1
    /\ Len(tick_arrays) >= 3
    /\ outcome.value = tick_arrays

====
